---- MODULE Spec2Model ----
(***************************************************************************)
(* Model of app.py: the _sdfa disk-usage statistics page.                  *)
(*                                                                         *)
(* index() runs collect_data() (a walk over ROOT_DIRECTORIES that folds    *)
(* file sizes into three dictionaries), build_hierarchy() (project ->      *)
(* ident -> version tree with per-root distributions) and then sorts and   *)
(* hands the result to the template.                                       *)
(*                                                                         *)
(* A Python dict is modelled as the sequence of its <<key, value>> items   *)
(* in insertion order.  A percentage (a Python float) is modelled as the   *)
(* exact rational <<numerator, denominator>>; float rounding is not        *)
(* modelled.                                                               *)
(***************************************************************************)
EXTENDS Integers, Sequences, FiniteSets, Bags, TLC

(* ------------------------------ bounds --------------------------------- *)

\* number of files ending in _sdfa that one scan meets
MaxFiles == 3

\* the directories SDS/data/<project>/<version>/<ident> a root may hold, and
\* the sizes a file in them may have
IdentityKeys == { <<"P", "v1", "id1">>, <<"P", "v2", "id1">>,
                  <<"P", "v1", "id2">>, <<"a", "v1", "id1">> }
Sizes        == {0, 100, 300}

\* the query strings of a request: no parameter (Absent: not given), or both
\* ?sort= and ?order=
Absent   == "<absent>"
Requests == {[sort |-> Absent, order |-> Absent]} \cup
            [sort : {"name", "total_size"}, order : {"asc", "desc"}]

(* --------------------------- configuration ----------------------------- *)

ROOT_DIRECTORIES == <<"/data/DDAM1", "/data/DDAM2">>

(* ------------------------------- dicts --------------------------------- *)

DictHas(d, k) == \E n \in 1..Len(d) : d[n][1] = k

DictGet(d, k, default) ==
    IF DictHas(d, k) THEN d[CHOOSE n \in 1..Len(d) : d[n][1] = k][2] ELSE default

DictSet(d, k, v) ==
    IF DictHas(d, k)
    THEN [n \in 1..Len(d) |-> IF d[n][1] = k THEN <<k, v>> ELSE d[n]]
    ELSE Append(d, <<k, v>>)

\* mutant of DictAdd: d[k] = size
DictAdd_Assign(d, k, size) == DictSet(d, k, size)

\* defaultdict(int): d[k] += size
DictAdd(d, k, size) == DictSet(d, k, DictGet(d, k, 0) + size)

DictKeys(d) == [n \in 1..Len(d) |-> d[n][1]]

(* ------------------------------- state --------------------------------- *)

VARIABLES
    pc,                 \* position of index(): "roots", "walk", "built", "done"
    rootIdx,            \* position of the loop over ROOT_DIRECTORIES (1-based)
    statistics,         \* dict (project, version, ident) -> size
    root_statistics,    \* dict root -> size
    detail_statistics,  \* dict (project, version, ident) -> dict root -> size
    observed,           \* history: bag of <<root, key, size>> of the files whose size was read
    unreadable,         \* history: number of files whose getsize raised OSError
    resumed,            \* history: a size was accumulated after an OSError
    args,               \* request.args as index() reads it; Render fixes the values
    hierarchy,          \* the value build_hierarchy returned to index()
    response            \* the arguments index() passes to render_template

vars == <<pc, rootIdx, statistics, root_statistics, detail_statistics,
          observed, unreadable, resumed, args, hierarchy, response>>

maps == <<statistics, root_statistics, detail_statistics>>

NoResponse == [rendered |-> FALSE]

NFiles == BagCardinality(observed) + unreadable

Init ==
    /\ pc = "roots"
    /\ rootIdx = 1
    /\ statistics = <<>>
    /\ root_statistics = <<>>
    /\ detail_statistics = <<>>
    /\ observed = EmptyBag
    /\ unreadable = 0
    /\ resumed = FALSE
    /\ args = [sort |-> Absent, order |-> Absent]
    /\ hierarchy = <<>>
    /\ response = NoResponse

(* ---------------------------- collect_data ----------------------------- *)

\* Directories outside SDS/data/<project>/<version>/<ident> and files without the
\* suffix _sdfa are passed over by "continue" and change no variable: they are
\* stuttering steps and have no action of their own.

\* os.path.exists(root) is false: continue with the next root
RootMissing ==
    /\ pc = "roots"
    /\ rootIdx <= Len(ROOT_DIRECTORIES)
    /\ rootIdx' = rootIdx + 1
    /\ UNCHANGED <<pc, maps, observed, unreadable, resumed, args, hierarchy, response>>

\* os.path.exists(root) is true: os.walk(root) starts
EnterRoot ==
    /\ pc = "roots"
    /\ rootIdx <= Len(ROOT_DIRECTORIES)
    /\ pc' = "walk"
    /\ UNCHANGED <<rootIdx, maps, observed, unreadable, resumed, args, hierarchy, response>>

\* the outcomes of os.path.getsize(file_path): a size, or OSError raised
Returned(size) == [raised |-> FALSE, value |-> size]
OSError        == [raised |-> TRUE]

\* mutant of TryAccumulate: an unreadable file is accumulated with size 0
TryAccumulate_ZeroOnError(m, root, key, getsize) ==
    LET size == IF getsize.raised THEN 0 ELSE getsize.value
    IN  [statistics        |-> DictAdd(m.statistics, key, size),
         root_statistics   |-> DictAdd(m.root_statistics, root, size),
         detail_statistics |->
             DictSet(m.detail_statistics, key,
                     DictAdd(DictGet(m.detail_statistics, key, <<>>), root, size))]

\* the try block: getsize, then the three +=; except OSError: continue
TryAccumulate(m, root, key, getsize) ==
    IF getsize.raised
    THEN m
    ELSE LET size == getsize.value
         IN  [statistics        |-> DictAdd(m.statistics, key, size),
              root_statistics   |-> DictAdd(m.root_statistics, root, size),
              detail_statistics |->
                  DictSet(m.detail_statistics, key,
                          DictAdd(DictGet(m.detail_statistics, key, <<>>), root, size))]

CurrentMaps == [statistics        |-> statistics,
                root_statistics   |-> root_statistics,
                detail_statistics |-> detail_statistics]

SetMaps(m) ==
    /\ statistics' = m.statistics
    /\ root_statistics' = m.root_statistics
    /\ detail_statistics' = m.detail_statistics

\* a file *_sdfa under SDS/data/project/version/ident whose size is read
ScanFile(key, size) ==
    /\ pc = "walk"
    /\ NFiles < MaxFiles
    /\ SetMaps(TryAccumulate(CurrentMaps, ROOT_DIRECTORIES[rootIdx], key, Returned(size)))
    /\ observed' = observed (+) SetToBag({<<ROOT_DIRECTORIES[rootIdx], key, size>>})
    /\ resumed' = (resumed \/ unreadable > 0)
    /\ UNCHANGED <<pc, rootIdx, unreadable, args, hierarchy, response>>

\* a file *_sdfa under SDS/data/project/version/ident for which getsize raises
ScanUnreadable(key) ==
    /\ pc = "walk"
    /\ NFiles < MaxFiles
    /\ SetMaps(TryAccumulate(CurrentMaps, ROOT_DIRECTORIES[rootIdx], key, OSError))
    /\ unreadable' = unreadable + 1
    /\ UNCHANGED <<pc, rootIdx, observed, resumed, args, hierarchy, response>>

\* os.walk(root) is exhausted
EndWalk ==
    /\ pc = "walk"
    /\ pc' = "roots"
    /\ rootIdx' = rootIdx + 1
    /\ UNCHANGED <<maps, observed, unreadable, resumed, args, hierarchy, response>>

(* --------------------------- build_hierarchy --------------------------- *)

\* size / total * 100 guarded by "if total > 0 else 0", as an exact rational
Percentage(size, total) ==
    IF total > 0 THEN <<size * 100, total>> ELSE <<0, 1>>

\* the default factories of the two defaultdicts
NewIdent   == [versions |-> <<>>, total_size |-> 0, distribution |-> <<>>]
NewProject == [idents |-> <<>>, total_size |-> 0, distribution |-> <<>>]

\* if len(node['distribution']) < len(ROOT_DIRECTORIES): append a zero entry
InitDistribution(node, root) ==
    IF Len(node.distribution) < Len(ROOT_DIRECTORIES)
    THEN [node EXCEPT !.distribution =
              Append(@, [root |-> root, size |-> 0, percentage |-> <<0, 1>>])]
    ELSE node

\* body of the two nested initialisation loops, for one root and one key
SkeletonStep(h, root, key) ==
    LET project_name == key[1]
        ident_name   == key[3]
        p == InitDistribution(DictGet(h, project_name, NewProject), root)
        i == InitDistribution(DictGet(p.idents, ident_name, NewIdent), root)
    IN  DictSet(h, project_name, [p EXCEPT !.idents = DictSet(@, ident_name, i)])

RECURSIVE SkeletonKeys(_, _, _, _)
\* for project in project_version_ident_data (from the n-th key on)
SkeletonKeys(h, root, keys, n) ==
    IF n > Len(keys) THEN h
    ELSE SkeletonKeys(SkeletonStep(h, root, keys[n]), root, keys, n + 1)

RECURSIVE SkeletonPass(_, _, _)
\* for root in ROOT_DIRECTORIES (from the r-th root on)
SkeletonPass(h, keys, r) ==
    IF r > Len(ROOT_DIRECTORIES) THEN h
    ELSE SkeletonPass(SkeletonKeys(h, ROOT_DIRECTORIES[r], keys, 1), keys, r + 1)

\* mutant of Accrue: the guard taken with the 1-based index, the last root is lost
Accrue_OffByOne(node, i, root_size) ==
    IF i < Len(node.distribution)
    THEN [node EXCEPT !.total_size = @ + root_size,
                      !.distribution[i].size = @ + root_size]
    ELSE node

\* mutant of Accrue: distribution[i]['size'] = root_size instead of +=
Accrue_Assign(node, i, root_size) ==
    IF i <= Len(node.distribution)
    THEN [node EXCEPT !.total_size = @ + root_size,
                      !.distribution[i].size = root_size]
    ELSE node

\* if i < len(node['distribution']): total_size += root_size; distribution[i]['size'] += root_size
\* (i is 1-based here)
Accrue(node, i, root_size) ==
    IF i <= Len(node.distribution)
    THEN [node EXCEPT !.total_size = @ + root_size,
                      !.distribution[i].size = @ + root_size]
    ELSE node

\* body of "for i, root in enumerate(ROOT_DIRECTORIES)" of the fill loop
FillRoot(h, key, total_size, detail, i) ==
    LET project == key[1]
        version == key[2]
        ident   == key[3]
        root    == ROOT_DIRECTORIES[i]
        root_size  == DictGet(DictGet(detail, key, <<>>), root, 0)
        percentage == Percentage(root_size, total_size)
        p0 == DictGet(h, project, NewProject)
        i0 == DictGet(p0.idents, ident, NewIdent)
        v0 == DictGet(i0.versions, version, [total_size |-> total_size, distribution |-> <<>>])
        v1 == [v0 EXCEPT !.distribution =
                  Append(@, [root |-> root, size |-> root_size, percentage |-> percentage])]
        i1 == Accrue([i0 EXCEPT !.versions = DictSet(@, version, v1)], i, root_size)
        p1 == Accrue([p0 EXCEPT !.idents = DictSet(@, ident, i1)], i, root_size)
    IN  DictSet(h, project, p1)

RECURSIVE FillRoots(_, _, _, _, _)
FillRoots(h, key, total_size, detail, i) ==
    IF i > Len(ROOT_DIRECTORIES) THEN h
    ELSE FillRoots(FillRoot(h, key, total_size, detail, i), key, total_size, detail, i + 1)

\* body of the fill loop for one item of project_version_ident_data
FillKey(h, key, total_size, detail) ==
    LET p0 == DictGet(h, key[1], NewProject)
        i0 == DictGet(p0.idents, key[3], NewIdent)
        i1 == [i0 EXCEPT !.versions =
                  DictSet(@, key[2], [total_size |-> total_size, distribution |-> <<>>])]
        h1 == DictSet(h, key[1], [p0 EXCEPT !.idents = DictSet(@, key[3], i1)])
    IN  FillRoots(h1, key, total_size, detail, 1)

RECURSIVE FillPass(_, _, _, _)
\* for (project, version, ident), total_size in project_version_ident_data.items()
FillPass(h, data, detail, n) ==
    IF n > Len(data) THEN h
    ELSE FillPass(FillKey(h, data[n][1], data[n][2], detail), data, detail, n + 1)

\* mutant of Percentages: the percentages of the skeleton are left as they are
Percentages_Stale(node) == node

\* the percentage of every entry of a project's or ident's distribution
Percentages(node) ==
    [node EXCEPT !.distribution =
        [i \in 1..Len(node.distribution) |->
            [node.distribution[i] EXCEPT
                !.percentage = Percentage(node.distribution[i].size, node.total_size)]]]

\* the last loop of build_hierarchy
PercentagePass(h) ==
    [n \in 1..Len(h) |->
        <<h[n][1],
          [Percentages(h[n][2]) EXCEPT !.idents =
              [k \in 1..Len(h[n][2].idents) |->
                  <<h[n][2].idents[k][1], Percentages(h[n][2].idents[k][2])>>]]>>]

build_hierarchy(project_version_ident_data, detail) ==
    PercentagePass(
        FillPass(SkeletonPass(<<>>, DictKeys(project_version_ident_data), 1),
                 project_version_ident_data, detail, 1))

(* -------------------------------- index -------------------------------- *)

\* a Python str as the sequence of its code points
CodePoints == [P |-> <<80>>, a |-> <<97>>]

\* str.lower()
Lower(cps) ==
    [n \in 1..Len(cps) |-> IF cps[n] >= 65 /\ cps[n] <= 90 THEN cps[n] + 32 ELSE cps[n]]

RECURSIVE KeyLess(_, _)
\* a < b for two sort keys (an int is the one-element sequence)
KeyLess(a, b) ==
    IF b = <<>> THEN FALSE
    ELSE IF a = <<>> THEN TRUE
    ELSE IF a[1] # b[1] THEN a[1] < b[1]
    ELSE KeyLess(Tail(a), Tail(b))

\* mutant of sort_key: the name is compared without lower()
sort_key_CaseSensitive(item, sort_by) ==
    IF sort_by = "name" THEN CodePoints[item.name] ELSE <<item.total_size>>

\* sort_key(item) of index()
sort_key(item, sort_by) ==
    IF sort_by = "name" THEN Lower(CodePoints[item.name]) ELSE <<item.total_size>>

\* key of the sort of the versions: lambda x: x['total_size']
size_key(item) == <<item.total_size>>

\* x goes before y in the sorted list
Before(kx, ky, reverse) == IF reverse THEN KeyLess(ky, kx) ELSE KeyLess(kx, ky)

\* list.sort(key=..., reverse=...), keys[n] being the key of list[n]: the sort is
\* stable, so the place of item n is the number of items that go before it or tie
\* with it from an earlier place
SortRank(keys, n, reverse) ==
    Cardinality({m \in 1..Len(keys) :
        \/ Before(keys[m], keys[n], reverse)
        \/ /\ ~Before(keys[n], keys[m], reverse)
           /\ m <= n})

ListSort(list, keys, reverse) ==
    [place \in 1..Len(list) |->
        list[CHOOSE n \in 1..Len(list) : SortRank(keys, n, reverse) = place]]

\* mutant of VersionEntries: the versions are left in insertion order
VersionEntries_Unsorted(versions) ==
    [n \in 1..Len(versions) |->
        [name         |-> versions[n][1],
         total_size   |-> versions[n][2].total_size,
         distribution |-> versions[n][2].distribution]]

\* ident_entry['versions'] after its sort
VersionEntries(versions) ==
    LET entries == [n \in 1..Len(versions) |->
                       [name         |-> versions[n][1],
                        total_size   |-> versions[n][2].total_size,
                        distribution |-> versions[n][2].distribution]]
    IN  ListSort(entries, [n \in 1..Len(entries) |-> size_key(entries[n])], TRUE)

IdentEntries(idents) ==
    [n \in 1..Len(idents) |->
        [name         |-> idents[n][1],
         total_size   |-> idents[n][2].total_size,
         distribution |-> idents[n][2].distribution,
         versions     |-> VersionEntries(idents[n][2].versions)]]

\* the list "projects" before its sort
ProjectEntries(h) ==
    [n \in 1..Len(h) |->
        [name         |-> h[n][1],
         total_size   |-> h[n][2].total_size,
         distribution |-> h[n][2].distribution,
         idents       |-> IdentEntries(h[n][2].idents)]]

RECURSIVE SumValues(_, _)
\* sum(d.values()) of the first n items
SumValues(d, n) == IF n = 0 THEN 0 ELSE SumValues(d, n - 1) + d[n][2]

\* root_distribution: one entry per item of root_stats
RootDistribution(root_stats, total_size) ==
    [n \in 1..Len(root_stats) |->
        [root       |-> root_stats[n][1],
         size       |-> root_stats[n][2],
         percentage |-> Percentage(root_stats[n][2], total_size)]]

\* request.args.get(name, default)
ArgsGet(arg, default) == IF arg = Absent THEN default ELSE arg

\* index(): collect_data has returned; hierarchy = build_hierarchy(stats, detail_stats)
BuildHierarchy ==
    /\ pc = "roots"
    /\ rootIdx > Len(ROOT_DIRECTORIES)
    /\ hierarchy' = build_hierarchy(statistics, detail_statistics)
    /\ pc' = "built"
    /\ UNCHANGED <<rootIdx, maps, observed, unreadable, resumed, args, response>>

\* index() from the conversion of the hierarchy to render_template
Render(request_args) ==
    /\ pc = "built"
    /\ args' = request_args
    /\ LET sort_by    == ArgsGet(request_args.sort, "total_size")
           order      == ArgsGet(request_args.order, "desc")
           reverse    == (order = "desc")
           projects   == ProjectEntries(hierarchy)
           total_size == SumValues(root_statistics, Len(root_statistics))
       IN  response' =
               [rendered          |-> TRUE,
                projects          |->
                    ListSort(projects,
                             [n \in 1..Len(projects) |-> sort_key(projects[n], sort_by)],
                             reverse),
                root_distribution |-> RootDistribution(root_statistics, total_size),
                total_size        |-> total_size,
                root_directories  |-> ROOT_DIRECTORIES,
                current_sort      |-> sort_by,
                current_order     |-> order]
    /\ pc' = "done"
    /\ UNCHANGED <<rootIdx, maps, observed, unreadable, resumed, hierarchy>>

Next ==
    \/ RootMissing
    \/ EnterRoot
    \/ \E key \in IdentityKeys, size \in Sizes : ScanFile(key, size)
    \/ \E key \in IdentityKeys : ScanUnreadable(key)
    \/ EndWalk
    \/ BuildHierarchy
    \/ \E request_args \in Requests : Render(request_args)

Spec == Init /\ [][Next]_vars

(* ---------------------- vocabulary of the properties ------------------- *)

\* collect_data runs or has just returned; build_hierarchy has just returned;
\* index() has rendered
Collecting == pc \in {"roots", "walk"}
Built == pc = "built"
Done  == pc = "done"

Root1 == ROOT_DIRECTORIES[1]
Root2 == ROOT_DIRECTORIES[2]

Observations == BagToSet(observed)

RECURSIVE SumSizes(_)
\* the sum of the sizes of the observations of S, with their multiplicity
SumSizes(S) ==
    IF S = {} THEN 0
    ELSE LET o == CHOOSE x \in S : TRUE
         IN  o[3] * CopiesIn(o, observed) + SumSizes(S \ {o})

RECURSIVE SumField(_, _)
\* the sum of total_size (or size) over the first n values of a sequence of numbers
SumField(sizes, n) == IF n = 0 THEN 0 ELSE SumField(sizes, n - 1) + sizes[n]

DistSizes(node) == [i \in 1..Len(node.distribution) |-> node.distribution[i].size]

DistSizeSum(node) == SumField(DistSizes(node), Len(node.distribution))

\* the nodes of the tree build_hierarchy returned, each with the path that names it
ProjectNodes ==
    {[path |-> <<hierarchy[n][1]>>, node |-> hierarchy[n][2]] : n \in 1..Len(hierarchy)}

IdentNodes ==
    UNION {{[path |-> p.path \o <<p.node.idents[k][1]>>, node |-> p.node.idents[k][2]] :
               k \in 1..Len(p.node.idents)} : p \in ProjectNodes}

VersionNodes ==
    UNION {{[path |-> i.path \o <<i.node.versions[k][1]>>, node |-> i.node.versions[k][2]] :
               k \in 1..Len(i.node.versions)} : i \in IdentNodes}

TreeNodes == ProjectNodes \cup IdentNodes \cup VersionNodes

\* the distribution lists the known roots: one entry per root, in configured order
ListsKnownRoots(dist) ==
    /\ Len(dist) = Len(ROOT_DIRECTORIES)
    /\ \A i \in 1..Len(dist) : dist[i].root = ROOT_DIRECTORIES[i]

\* the percentage p (a rational) is the number pct
PercentIs(p, pct) == p[2] # 0 /\ p[1] = pct * p[2]

\* the distribution is the given sequence of <<root, size, percent>>
DistIs(dist, expected) ==
    /\ Len(dist) = Len(expected)
    /\ \A i \in 1..Len(expected) :
          /\ dist[i].root = expected[i][1]
          /\ dist[i].size = expected[i][2]
          /\ PercentIs(dist[i].percentage, expected[i][3])

NodeAt(path) == (CHOOSE t \in TreeNodes : t.path = path).node

(* ------------------------------- C1 ------------------------------------ *)

\* C1: every ProjectNode, IdentNode and VersionNode returned by build_hierarchy has
\* a distribution of exactly len(ROOT_DIRECTORIES) entries, the entry at position i
\* carrying root == ROOT_DIRECTORIES[i], also when a project or ident owns two or
\* more IdentityKeys.
C1_ZeroFillInOrder ==
    Built => \A t \in TreeNodes : ListsKnownRoots(t.node.distribution)

(* ------------------------------- C2 ------------------------------------ *)

EndToEndExample ==
    SetToBag({ <<Root1, <<"P", "v1", "id1">>, 100>>,
               <<Root2, <<"P", "v1", "id1">>, 300>>,
               <<Root1, <<"P", "v2", "id1">>, 0>> })

\* C2: the observations (root1,P,v1,id1,100), (root2,P,v1,id1,300), (root1,P,v2,id1,0)
\* give v1 total 400 with [(root1,100,25%),(root2,300,75%)], v2 total 0 with
\* [(root1,0,0%),(root2,0,0%)], id1 total 400 and P total 400, both with the
\* root1/root2 split of v1.
C2_EndToEndExample ==
    (Built /\ observed = EndToEndExample /\ unreadable = 0) =>
        /\ {t.path : t \in TreeNodes} =
               {<<"P">>, <<"P", "id1">>, <<"P", "id1", "v1">>, <<"P", "id1", "v2">>}
        /\ NodeAt(<<"P", "id1", "v1">>).total_size = 400
        /\ DistIs(NodeAt(<<"P", "id1", "v1">>).distribution,
                  <<<<Root1, 100, 25>>, <<Root2, 300, 75>>>>)
        /\ NodeAt(<<"P", "id1", "v2">>).total_size = 0
        /\ DistIs(NodeAt(<<"P", "id1", "v2">>).distribution,
                  <<<<Root1, 0, 0>>, <<Root2, 0, 0>>>>)
        /\ NodeAt(<<"P", "id1">>).total_size = 400
        /\ DistIs(NodeAt(<<"P", "id1">>).distribution,
                  <<<<Root1, 100, 25>>, <<Root2, 300, 75>>>>)
        /\ NodeAt(<<"P">>).total_size = 400
        /\ DistIs(NodeAt(<<"P">>).distribution,
                  <<<<Root1, 100, 25>>, <<Root2, 300, 75>>>>)

(* ------------------------------- C4 ------------------------------------ *)

\* C4: the root_distribution index() hands to the template has exactly one entry
\* for every configured root, in configured order, a root without observations
\* included (size 0, percentage 0), and total_size is the sum of its sizes.
C4_GlobalDistributionComplete ==
    Done =>
        /\ ListsKnownRoots(response.root_distribution)
        /\ response.total_size =
               SumField([i \in 1..Len(response.root_distribution) |->
                            response.root_distribution[i].size],
                        Len(response.root_distribution))
        /\ \A i \in 1..Len(response.root_distribution) :
              response.root_distribution[i].size = 0 =>
                  response.root_distribution[i].percentage[1] = 0

(* ------------------------------- C3 ------------------------------------ *)

IdentTotals(p)   == [k \in 1..Len(p.idents) |-> p.idents[k][2].total_size]
VersionTotals(i) == [k \in 1..Len(i.versions) |-> i.versions[k][2].total_size]

\* C3: a ProjectNode's total_size is the sum of its IdentNodes' total_size, an
\* IdentNode's total_size is the sum of its VersionNodes' total_size, and the
\* project's total_size is the sum of the sizes of the files of that project read
\* under all roots.
C3_Additivity ==
    Built =>
        /\ {p.path[1] : p \in ProjectNodes} = {o[2][1] : o \in Observations}
        /\ \A p \in ProjectNodes :
              /\ p.node.total_size = SumField(IdentTotals(p.node), Len(p.node.idents))
              /\ p.node.total_size = SumSizes({o \in Observations : o[2][1] = p.path[1]})
        /\ \A i \in IdentNodes :
              i.node.total_size = SumField(VersionTotals(i.node), Len(i.node.versions))

\* a project with two idents and an ident with two versions, fed from both roots
C3_Witness ==
    /\ Built
    /\ \E p \in ProjectNodes :
          /\ Len(p.node.idents) = 2
          /\ \E k \in 1..2 : Len(p.node.idents[k][2].versions) = 2
          /\ \E o1, o2 \in Observations :
                /\ o1[2][1] = p.path[1] /\ o2[2][1] = p.path[1]
                /\ o1[1] = Root1 /\ o2[1] = Root2
                /\ o1[3] > 0 /\ o2[3] > 0

(* ------------------------------- C5 ------------------------------------ *)

\* C5: for every ProjectNode, IdentNode and VersionNode, total_size equals the sum
\* of the size fields of the node's own distribution entries.
C5_TotalIsSumOfDistribution ==
    Built => \A t \in TreeNodes : t.node.total_size = DistSizeSum(t.node)

\* an ident with two versions that both roots and both versions contributed to
C5_Witness ==
    /\ Built
    /\ \E i \in IdentNodes :
          /\ Len(i.node.versions) = 2
          /\ \A k \in 1..2 : i.node.versions[k][2].total_size > 0
          /\ \A r \in 1..Len(i.node.distribution) : i.node.distribution[r].size > 0

(* ------------------------------- C6 ------------------------------------ *)

RECURSIVE PercentSum(_, _)
\* the sum of the percentages of the first n entries, as a rational
PercentSum(dist, n) ==
    IF n = 0 THEN <<0, 1>>
    ELSE LET rest == PercentSum(dist, n - 1)
             p    == dist[n].percentage
         IN  <<rest[1] * p[2] + p[1] * rest[2], rest[2] * p[2]>>

\* C6: for every node, no percentage is a division by zero; when total_size == 0
\* every percentage is 0; when total_size > 0 each percentage is
\* size / total_size * 100 for the node's final total, and the percentages of the
\* node sum to 100.
C6_Percentages ==
    Built => \A t \in TreeNodes :
        LET dist  == t.node.distribution
            total == t.node.total_size
        IN  /\ \A i \in 1..Len(dist) : dist[i].percentage[2] # 0
            /\ total = 0 => \A i \in 1..Len(dist) : dist[i].percentage[1] = 0
            /\ total > 0 =>
                  /\ \A i \in 1..Len(dist) :
                        dist[i].percentage[1] * total
                            = dist[i].size * 100 * dist[i].percentage[2]
                  /\ PercentIs(PercentSum(dist, Len(dist)), 100)

\* a node of total 0 next to an ident whose total grew over two versions and
\* whose roots both hold a part of it
C6_Witness ==
    /\ Built
    /\ \E t \in TreeNodes : t.node.total_size = 0
    /\ \E i \in IdentNodes :
          /\ Len(i.node.versions) = 2
          /\ \A k \in 1..2 : i.node.versions[k][2].total_size > 0
          /\ \A r \in 1..Len(i.node.distribution) : i.node.distribution[r].size > 0

(* ------------------------------- C7 ------------------------------------ *)

SizeOrdered(ps, desc) ==
    \A i, j \in 1..Len(ps) :
        i < j => IF desc THEN ps[i].total_size >= ps[j].total_size
                         ELSE ps[i].total_size <= ps[j].total_size

LowerName(p) == Lower(CodePoints[p.name])

NameOrdered(ps, desc) ==
    \A i, j \in 1..Len(ps) :
        i < j => IF desc THEN ~KeyLess(LowerName(ps[i]), LowerName(ps[j]))
                         ELSE ~KeyLess(LowerName(ps[j]), LowerName(ps[i]))

\* C7: the projects index() exposes are the projects of the tree, sorted by the
\* selected key and direction: total_size non-increasing for desc and
\* non-decreasing for asc, lower-cased names alphabetical for asc and reverse
\* alphabetical for desc, and total_size descending when no parameter is given.
C7_ProjectsSorted ==
    Done =>
        LET ps == response.projects
        IN  /\ Len(ps) = Len(hierarchy)
            /\ {ps[n].name : n \in 1..Len(ps)} = {p.path[1] : p \in ProjectNodes}
            /\ (args.sort = "total_size" /\ args.order = "desc") => SizeOrdered(ps, TRUE)
            /\ (args.sort = "total_size" /\ args.order = "asc") => SizeOrdered(ps, FALSE)
            /\ (args.sort = "name" /\ args.order = "asc") => NameOrdered(ps, FALSE)
            /\ (args.sort = "name" /\ args.order = "desc") => NameOrdered(ps, TRUE)
            /\ (args.sort = Absent /\ args.order = Absent) => SizeOrdered(ps, TRUE)

\* two projects of different totals sorted by name ascending: "a" before "P",
\* against their code points and against their sizes
C7_Witness ==
    /\ Done
    /\ args = [sort |-> "name", order |-> "asc"]
    /\ Len(response.projects) = 2
    /\ response.projects[1].name = "a"
    /\ response.projects[2].name = "P"
    /\ response.projects[1].total_size > response.projects[2].total_size
    /\ response.projects[2].total_size > 0

(* ------------------------------- C8 ------------------------------------ *)

ExposedIdents ==
    UNION {{[project |-> response.projects[n].name, entry |-> response.projects[n].idents[k]] :
               k \in 1..Len(response.projects[n].idents)} :
           n \in 1..Len(response.projects)}

\* C8: within every exposed IdentNode the VersionNodes are in non-increasing order
\* of total_size whatever the sort and order parameters, each version name of the
\* ident appears exactly once and none is dropped.
C8_VersionsSorted ==
    Done =>
        \A i \in ExposedIdents :
            LET vs == i.entry.versions
            IN  /\ \A m, n \in 1..Len(vs) :
                      m < n => /\ vs[m].total_size >= vs[n].total_size
                               /\ vs[m].name # vs[n].name
                /\ {vs[n].name : n \in 1..Len(vs)} =
                       {o[2][2] : o \in {x \in Observations :
                                            /\ x[2][1] = i.project
                                            /\ x[2][3] = i.entry.name}}
                /\ \A n \in 1..Len(vs) :
                      vs[n].total_size =
                          DictGet(statistics, <<i.project, vs[n].name, i.entry.name>>, 0)

\* versions {v1: 100, v2: 300}, met in that order, exposed as [v2, v1] while the
\* projects are sorted ascending
C8_Witness ==
    /\ Done
    /\ args.order = "asc"
    /\ \E i \in IdentNodes : DictKeys(i.node.versions) = <<"v1", "v2">>
    /\ \E i \in ExposedIdents :
          /\ Len(i.entry.versions) = 2
          /\ i.entry.versions[1].name = "v2" /\ i.entry.versions[1].total_size = 300
          /\ i.entry.versions[2].name = "v1" /\ i.entry.versions[2].total_size = 100

(* ------------------------------- C9 ------------------------------------ *)

\* the keys of a dict are distinct
KeysDistinct(d) == \A m, n \in 1..Len(d) : d[m][1] = d[n][1] => m = n

\* C9: whatever the order in which collect_data met the files, each value of the
\* three maps is the plain sum of the sizes of the observations sharing its key, and a
\* key is present exactly when an observation has it.
C9_OrderIndependentSums ==
    Collecting =>
        /\ KeysDistinct(statistics) /\ KeysDistinct(root_statistics)
        /\ KeysDistinct(detail_statistics)
        /\ \A key \in IdentityKeys :
              /\ DictGet(statistics, key, 0) = SumSizes({o \in Observations : o[2] = key})
              /\ DictHas(statistics, key) <=> \E o \in Observations : o[2] = key
              /\ DictHas(detail_statistics, key) <=> \E o \in Observations : o[2] = key
              /\ KeysDistinct(DictGet(detail_statistics, key, <<>>))
              /\ \A n \in 1..Len(ROOT_DIRECTORIES) :
                    DictGet(DictGet(detail_statistics, key, <<>>), ROOT_DIRECTORIES[n], 0)
                        = SumSizes({o \in Observations :
                                       o[2] = key /\ o[1] = ROOT_DIRECTORIES[n]})
        /\ \A n \in 1..Len(ROOT_DIRECTORIES) :
              /\ DictGet(root_statistics, ROOT_DIRECTORIES[n], 0)
                     = SumSizes({o \in Observations : o[1] = ROOT_DIRECTORIES[n]})
              /\ DictHas(root_statistics, ROOT_DIRECTORIES[n])
                     <=> \E o \in Observations : o[1] = ROOT_DIRECTORIES[n]
        /\ \A n \in 1..Len(statistics) : statistics[n][1] \in IdentityKeys

\* one key fed by files of different sizes from both roots, next to another key
C9_Witness ==
    /\ pc = "roots"
    /\ rootIdx > Len(ROOT_DIRECTORIES)
    /\ Len(statistics) = 2
    /\ \E o1, o2 \in Observations :
          /\ o1[2] = o2[2] /\ o1[1] = Root1 /\ o2[1] = Root2
          /\ o1[3] > 0 /\ o2[3] > o1[3]

(* ------------------------------- C10 ----------------------------------- *)

\* statistics[k] is the sum over the roots of detail_statistics[k][root]
DetailConsistent ==
    \A key \in IdentityKeys :
        DictGet(statistics, key, 0) =
            SumField([n \in 1..Len(ROOT_DIRECTORIES) |->
                         DictGet(DictGet(detail_statistics, key, <<>>),
                                 ROOT_DIRECTORIES[n], 0)],
                     Len(ROOT_DIRECTORIES))

\* the step of a file whose size cannot be read
UnreadableStep == unreadable' # unreadable

\* C10: a file whose getsize raises OSError changes none of statistics,
\* root_statistics and detail_statistics and leaves the scan inside the walk of
\* the same root, and after every processed file statistics[k] is the sum over
\* the roots of detail_statistics[k][root].
C10_UnreadableFileSkipped ==
    /\ []DetailConsistent
    /\ [][UnreadableStep => /\ maps' = maps
                            /\ pc' = "walk" /\ pc = "walk"
                            /\ rootIdx' = rootIdx]_vars

\* a scan that met an unreadable file, accumulated files after it and was rendered
\* with data of the second root
C10_Witness ==
    /\ Done
    /\ unreadable > 0
    /\ resumed
    /\ \E o \in Observations : o[1] = Root2 /\ o[3] > 0
====
